---- MODULE Spec2Model ----
(***************************************************************************)
(* A model of the Meteora liquidity rebalancer: the MeteoraOptimizer       *)
(* controller (cold start, tick, retry helper) and the polling loop that   *)
(* drives it.  Every await of the TypeScript source is one step; external  *)
(* calls (wallet, protocol, swap service, HTTP lookup) answer              *)
(* nondeterministically with a value or with an error.                     *)
(***************************************************************************)
EXTENDS Integers, Sequences, FiniteSets

(***************************************************************************)
(* Program constants.                                                      *)
(***************************************************************************)
\* const METERORA_MAX_BINS_PER_SIDE = 34
METERORA_MAX_BINS_PER_SIDE == 34
\* NATIVE_TOKEN_FEE_BUFFER defaults to 0.1; amounts are counted in tenths of a token
NATIVE_TOKEN_FEE_BUFFER == 1
\* retry(fn, retries = 3, delayMs = 1000): every call site uses the default
DefaultRetries == 3

(***************************************************************************)
(* Bounds of the model.                                                    *)
(***************************************************************************)
\* retry() is exercised alone with retries drawn from 0..MaxAttempts
MaxAttempts == 4
\* wallet reads answer a raw balance in 0..MaxBalance (tenths of a token)
MaxBalance == 1
\* the pool's active bin id is read in 0..MaxBin
MaxBin == 2
\* the pool's price per token is read in 1..MaxPrice
MaxPrice == 2
\* the pool query answers up to MaxPools pools with volumes in 0..MaxVolume
MaxPools == 3
MaxVolume == 2
\* the rebalance plan is computed for usable balances in 0..MaxAmount
MaxAmount == 6
\* the range interval is computed for bin steps in 1..MaxBinStep
MaxBinStep == 40
\* the swap gate is tried on balances of 0..MaxDust thousandths of a token
MaxDust == 24

(***************************************************************************)
(* Errors are identified by their message, as the source does with         *)
(* message.includes(...).                                                  *)
(***************************************************************************)
NoError == "undefined"
ErrTransient == "network error"
ErrInsufficientRaw == "insufficient funds"
ErrInsufficientFunds == "Insufficient funds"
ErrPositionNotFound == "No positions found in this pool"
ErrBadRequest == "Bad request"
ErrFeeBuffer == "Insufficient native token balance for transaction and position creation fees"
ErrNoWorkingPool == "No working pool address found"
ErrBinStep == "Failed to get bin step for pool"
ErrTypeError == "TypeError: cannot read properties of undefined"

\* the failures an external call can answer with: any of them for an operation
\* given to retry() on its own; a wallet read or the HTTP lookup fails on the
\* transport; a protocol or swap call can also run out of funds; the calls that
\* work on the wallet's position in a pool can also find none
ExternalErrors == {ErrTransient, ErrInsufficientRaw, ErrPositionNotFound, ErrBadRequest}
WalletErrors == {ErrTransient, ErrBadRequest}
ProtocolErrors == {ErrTransient, ErrBadRequest, ErrInsufficientRaw}
PositionErrors == ProtocolErrors \cup {ErrPositionNotFound}

\* error.message.includes('insufficient funds'): case-sensitive, so neither the
\* error retry() itself raises nor the fee-buffer error matches
IsInsufficientFunds(e) == e = ErrInsufficientRaw
\* error.message.includes('No positions found in this pool')
IsPositionNotFound(e) == e = ErrPositionNotFound
\* error.message.includes('Bad request')
IsBadRequest(e) == e = ErrBadRequest

VARIABLES
    \* MeteoraOptimizer fields
    workingPoolAddress, workingPoolBinStep, currLowerBinId, currUpperBinId,
    positionRangePerSide, nativeAsset,
    \* position in the code: the loop, the controller step, the enclosing call
    loop, exitCause, pc, ctx,
    \* locals of retry()
    retries, attempt, retryWait, lastError, outcomes, delays, retryOutcome,
    \* locals of the controller's methods
    caught, balances, plan, activeBin, nativeBalance,
    \* the chain, as far as the controller's own operations change it
    chainPos,
    \* history of the current cycle (cold start or tick)
    log, issued, result, lisResult, lisRuns, inFlight, pre,
    \* a helper computed on its own: its arguments and what it returned
    args, value

ctrlVars == <<workingPoolAddress, workingPoolBinStep, currLowerBinId, currUpperBinId>>
configVars == <<positionRangePerSide, nativeAsset>>
flowVars == <<loop, exitCause, pc, ctx, caught, result, lisResult, lisRuns, inFlight, log>>
retryVars == <<retries, attempt, retryWait, lastError, outcomes, delays, retryOutcome>>
localVars == <<balances, plan, activeBin, nativeBalance>>
fnVars == <<args, value>>
histVars == <<issued, pre>>
vars == <<workingPoolAddress, workingPoolBinStep, currLowerBinId, currUpperBinId,
          positionRangePerSide, nativeAsset, loop, exitCause, pc, ctx,
          retries, attempt, retryWait, lastError, outcomes, delays, retryOutcome,
          caught, balances, plan, activeBin, nativeBalance, chainPos,
          log, issued, result, lisResult, lisRuns, inFlight, pre, args, value>>

Undefined == "undefined"
NoPosition == [pool |-> Undefined, lower |-> 0, upper |-> 0]
NoPlan == [dir |-> "none", num |-> 0, den |-> 1]
NoBalances == [a |-> 0, b |-> 0]
NoOutcome == [kind |-> "none", v |-> Undefined]
NoActiveBin == [read |-> FALSE, binId |-> 0]
NoNativeBalance == [read |-> FALSE, raw |-> 0]
NoCall == [fn |-> "none"]
NoValue == [done |-> FALSE]
NoPool == [address |-> Undefined, bin_step |-> 0, trade_volume_24h |-> 0]

\* an entry of the cycle's history: what happened, and the message it carried
Ev(what, msg) == [ev |-> what, msg |-> msg]
\* sendAlert(AlertType.ERROR, `In <where>: <message>`)
Alert(where, msg) == Ev("alert:" \o where, msg)

Alive == loop # "exited"

(***************************************************************************)
(* Control flow.  Flow assigns every variable that says where the program  *)
(* is; the operators below it are the places control can go.               *)
(***************************************************************************)
Flow(l, x, p, c, cg, r, lr, ln, inf, lg) ==
    /\ loop' = l /\ exitCause' = x /\ pc' = p /\ ctx' = c /\ caught' = cg
    /\ result' = r /\ lisResult' = lr /\ lisRuns' = ln /\ inFlight' = inf /\ log' = lg

\* the next step of the same method
Goto(p, lg) == Flow(loop, exitCause, p, ctx, caught, result, lisResult, lisRuns, inFlight, lg)

\* runOptimizationLoop after optimize() has resolved: await delay(10 * 1000)
LoopAfterTick == "pollDelay"

\* a variant of the catch that swallows every error
LoopOnErrorSwallowAll(e) == "pollDelay"
\* runOptimizationLoop's catch: 'Bad request' is logged and swallowed, anything
\* else is thrown again, out of the timer callback
LoopOnError(e) == IF IsBadRequest(e) THEN "pollDelay" ELSE "exited"

\* optimize() resolves with v: control is back in runOptimizationLoop
TickReturns(v, cg, lr, lg) ==
    Flow(LoopAfterTick, exitCause, "idle", "none", cg, v, lr, lisRuns, inFlight - 1, lg)

\* optimize() rejects with e, which reaches runOptimizationLoop's catch
TickRejects(e, lr, lg) ==
    Flow(LoopOnError(e), IF LoopOnError(e) = "exited" THEN "tickError" ELSE exitCause,
         "idle", "none", caught, "threw", lr, lisRuns, inFlight - 1,
         Append(lg, Ev("rejected", e)))

\* variants of optimize()'s catch block: the alert left out, the recovery left out
CatchInOptimizeNoAlert(e, lg) ==
    IF IsPositionNotFound(e)
    THEN Flow(loop, exitCause, "lis_balances", "recovery", e, result, "none",
              lisRuns + 1, inFlight, Append(lg, Ev("loadInitialState", "")))
    ELSE TickReturns("false", e, lisResult, lg)
CatchInOptimizeNoRecovery(e, lg) ==
    TickReturns("false", e, lisResult, Append(lg, Alert("optimizeMeteora", e)))

\* the catch block of optimize(): a position-not-found error starts
\* loadInitialState, any other error is alerted and the tick resolves with false
CatchInOptimize(e, lg) ==
    IF IsPositionNotFound(e)
    THEN Flow(loop, exitCause, "lis_balances", "recovery", e, result, "none",
              lisRuns + 1, inFlight, Append(lg, Ev("loadInitialState", "")))
    ELSE TickReturns("false", e, lisResult, Append(lg, Alert("optimizeMeteora", e)))

\* a variant of main() that calls runOptimizationLoop() itself, without setTimeout
LoopAfterColdStartNoDelay == "tickDue"
\* main() after loadInitialState(): setTimeout(runOptimizationLoop, 10 * 1000)
LoopAfterColdStart == "initialDelay"

\* loadInitialState() resolves with v: in main() the loop is scheduled with
\* setTimeout; in optimize()'s catch the alert follows and the tick resolves
LisReturns(v, lg) ==
    IF ctx = "cold"
    THEN Flow(LoopAfterColdStart, exitCause, "idle", "none", caught, result, v, lisRuns,
              inFlight, lg)
    ELSE TickReturns("false", caught, v, Append(lg, Alert("optimizeMeteora", caught)))

\* an error leaves the current method: getGoodPool and optimize have a catch,
\* loadInitialState has none, so from main() it reaches main().catch and from
\* optimize()'s catch block it leaves optimize()
Throw(e, lg) ==
    CASE pc = "lis_getPools" -> LisReturns("false", Append(lg, Alert("getGoodPool", e)))
      [] pc # "lis_getPools" /\ ctx = "tick" -> CatchInOptimize(e, lg)
      [] pc # "lis_getPools" /\ ctx = "recovery" -> TickRejects(e, "threw", lg)
      [] pc # "lis_getPools" /\ ctx = "cold" ->
            Flow("exited", "coldStartError", "idle", "none", caught, result, "threw",
                 lisRuns, inFlight, Append(lg, Ev("rejected", e)))
      [] pc # "lis_getPools" /\ ctx = "harness" ->
            Flow(loop, exitCause, "harness_done", ctx, caught, result, lisResult,
                 lisRuns, inFlight, lg)

(***************************************************************************)
(* retry(fn, retries, delayMs)                                             *)
(***************************************************************************)
RetriedCalls == {"lis_getPositions", "lis_getPools", "rb_activeBin", "rb_swap", "al_add",
                 "al_lookup1", "al_lookup2", "rl_remove", "op_activeBin", "harness"}

\* entering retry(): let lastError; attempt = 0
RetryEnter ==
    /\ attempt' = 0 /\ retryWait' = FALSE /\ lastError' = NoError /\ outcomes' = <<>>
    /\ delays' = 0 /\ retryOutcome' = NoOutcome /\ UNCHANGED retries

\* a variant with the test at the end of the loop: fn() is called once at least
RetryCanInvokeDoWhile == Alive /\ ~retryWait /\ (attempt < retries \/ attempt = 0)
\* the loop test and the call of fn()
RetryCanInvoke == Alive /\ ~retryWait /\ attempt < retries

\* the answers of fn() so far, kept when retry() is exercised on its own
Record(answer) == IF ctx = "harness" THEN Append(outcomes, answer) ELSE outcomes

\* fn() resolved with val: return await fn()
RetryReturns(val) ==
    IF ctx = "harness"
    THEN /\ outcomes' = Record([ok |-> TRUE, v |-> val])
         /\ retryOutcome' = [kind |-> "returned", v |-> val]
         /\ UNCHANGED <<retries, attempt, retryWait, lastError, delays>>
    ELSE RetryEnter

\* variants of the catch block with one slip each: no test for insufficient funds,
\* one attempt too few, a delay after the last attempt as well
RetryDecisionNoFatal(e, att, n) == IF att < n - 1 THEN "delay" ELSE "exhausted"
RetryDecisionOneShort(e, att, n) ==
    IF IsInsufficientFunds(e) THEN "fatal"
    ELSE IF att < n - 2 THEN "delay"
    ELSE "exhausted"
RetryDecisionAlwaysDelay(e, att, n) == IF IsInsufficientFunds(e) THEN "fatal" ELSE "delay"
\* a variant that gives up at once on position-not-found as well
RetryDecisionNotFoundFatal(e, att, n) ==
    IF IsInsufficientFunds(e) \/ IsPositionNotFound(e) THEN "fatal"
    ELSE IF att < n - 1 THEN "delay"
    ELSE "exhausted"

\* what the catch block does with the error of attempt number `att`:
\* throw a new error at once, wait before the next attempt, or leave the loop
RetryDecision(e, att, n) ==
    IF IsInsufficientFunds(e) THEN "fatal"
    ELSE IF att < n - 1 THEN "delay"
    ELSE "exhausted"

\* fn() rejected with e: the catch block of retry()
RetryFails(e, lg) ==
    /\ outcomes' = Record([ok |-> FALSE, v |-> e])
    /\ lastError' = e
    /\ UNCHANGED <<retries, delays>>
    /\ CASE RetryDecision(e, attempt, retries) = "fatal" ->
                /\ retryOutcome' = [kind |-> "threw", v |-> ErrInsufficientFunds]
                /\ UNCHANGED <<attempt, retryWait>>
                /\ Throw(ErrInsufficientFunds, lg)
         [] RetryDecision(e, attempt, retries) = "delay" ->
                /\ retryWait' = TRUE
                /\ UNCHANGED <<attempt, retryOutcome>>
                /\ Goto(pc, lg)
         [] RetryDecision(e, attempt, retries) = "exhausted" ->
                /\ retryOutcome' = [kind |-> "threw", v |-> e]
                /\ attempt' = attempt + 1
                /\ UNCHANGED retryWait
                /\ Throw(e, lg)

\* the delay between two attempts has elapsed: attempt++
RetryDelay ==
    /\ Alive /\ retryWait
    /\ retryWait' = FALSE /\ attempt' = attempt + 1 /\ delays' = delays + 1
    /\ UNCHANGED <<retries, lastError, outcomes, retryOutcome>>
    /\ UNCHANGED <<ctrlVars, configVars, fnVars, flowVars, localVars, histVars, chainPos>>

\* a step that is not inside retry(): go on, raise, or end the method
Enter(p, lg) == Goto(p, lg) /\ IF p \in RetriedCalls THEN RetryEnter ELSE UNCHANGED retryVars
Raise(e, lg) == Throw(e, lg) /\ UNCHANGED retryVars
\* fn() resolved with val and the method goes on at p (which may be the next retry)
RetryThen(val, p, lg) ==
    Goto(p, lg) /\ IF p \in RetriedCalls THEN RetryEnter ELSE RetryReturns(val)

(***************************************************************************)
(* Pure helpers of the controller.                                         *)
(***************************************************************************)
Max(a, b) == IF a >= b THEN a ELSE b
Min(a, b) == IF a <= b THEN a ELSE b
\* Math.ceil(a / b) for a >= 0, b > 0
CeilDiv(a, b) == (a + b - 1) \div b

\* a variant that takes the buffer off the asset that is not native
UsableWrongAsset(raw, isNative) ==
    IF ~isNative THEN Max(0, raw - NATIVE_TOKEN_FEE_BUFFER) ELSE raw
\* getUsableBalances: the fee buffer comes off whichever asset is SOL
Usable(raw, isNative) == IF isNative THEN Max(0, raw - NATIVE_TOKEN_FEE_BUFFER) ELSE raw
UsableBalances(rawA, rawB) ==
    [a |-> Usable(rawA, nativeAsset = "a"), b |-> Usable(rawB, nativeAsset = "b")]

\* positionRangePerSide is kept in basis points: the configured fraction times
\* 10000.  The source multiplies in double precision, and for some fractions the
\* product is one unit in the last place above the whole number (0.035 * 10000 is
\* 350.00000000000006, 0.07 * 10000 is 700.0000000000001); these are the
\* configured ranges of the model for which it is.  A product below the whole
\* number (0.043 * 10000) does not change a Math.ceil.
ProductExcess == {350, 690, 700}
\* Math.ceil((positionRangePerSide * 10000) / b): the quotient of a product that
\* is just above `range` lies just above range / b
CeilRangeOver(range, b) ==
    IF range \in ProductExcess THEN range \div b + 1 ELSE CeilDiv(range, b)

\* a variant that rounds the minimum bin step down
MinBinStepFloor(range) == range \div METERORA_MAX_BINS_PER_SIDE
\* getGoodPool: filter on bin_step >= minBinStep, then reduce to the first pool of
\* the highest trade_volume_24h
MinBinStep(range) == CeilRangeOver(range, METERORA_MAX_BINS_PER_SIDE)
\* a variant of the reducer with >=: the last pool of the highest volume wins
RECURSIVE PoolReduceLastWins(_, _, _)
PoolReduceLastWins(pools, i, maxPool) ==
    IF i > Len(pools) THEN maxPool
    ELSE IF maxPool = NoPool \/ pools[i].trade_volume_24h >= maxPool.trade_volume_24h
         THEN PoolReduceLastWins(pools, i + 1, pools[i])
         ELSE PoolReduceLastWins(pools, i + 1, maxPool)
RECURSIVE PoolReduce(_, _, _)
PoolReduce(pools, i, maxPool) ==
    IF i > Len(pools) THEN maxPool
    ELSE IF maxPool = NoPool \/ pools[i].trade_volume_24h > maxPool.trade_volume_24h
         THEN PoolReduce(pools, i + 1, pools[i])
         ELSE PoolReduce(pools, i + 1, maxPool)
GetGoodPool(pools, range) ==
    PoolReduce(SelectSeq(pools, LAMBDA q : q.bin_step >= MinBinStep(range)), 1, NoPool)

\* a variant that sells the whole surplus instead of half of it
RebalancePlanFullSurplus(a, b, price) ==
    IF a * price > b THEN [dir |-> "sellA", num |-> a * price - b, den |-> price]
    ELSE IF b > a * price THEN [dir |-> "sellB", num |-> b - a * price, den |-> 1]
    ELSE NoPlan
\* rebalancePosition, lines 257-303: with total = a*price + b, targetB = total/2 and
\* targetA = targetB/price, a > targetA is a*price > b and the amount a - targetA is
\* (a*price - b) / (2*price); b > targetB is b > a*price, the amount (b - a*price) / 2
RebalancePlan(a, b, price) ==
    IF a * price > b THEN [dir |-> "sellA", num |-> a * price - b, den |-> 2 * price]
    ELSE IF b > a * price THEN [dir |-> "sellB", num |-> b - a * price, den |-> 2]
    ELSE NoPlan

\* rebalancePosition, lines 271 and 288: the branch that is entered calls
\* jupiter.swap whatever the amount is
SwapExecuted(p) == p.dir # "none"

\* addLiquidity, lines 326-335: Math.min(Math.ceil(range * 10000 / binStep), 34)
RangeInterval(range, binStep) ==
    Min(CeilRangeOver(range, binStep), METERORA_MAX_BINS_PER_SIDE)

\* a variant that treats the two bounds as outside the range
InRangeExclusive(bin, lower, upper) == ~(bin <= lower \/ bin >= upper)
\* optimize, line 398, negated: the active bin is within the stored range
InRange(bin, lower, upper) == ~(bin < lower \/ bin > upper)

(***************************************************************************)
(* The environment: what the external collaborators can answer.            *)
(***************************************************************************)
Balances == 0 .. MaxBalance
Bins == 0 .. MaxBin
Prices == 1 .. MaxPrice
PositionRanges == {500}
PoolA == [address |-> "poolA", bin_step |-> 5, trade_volume_24h |-> 300]
PoolB == [address |-> "poolB", bin_step |-> 500, trade_volume_24h |-> 100]
PoolC == [address |-> "poolC", bin_step |-> 250, trade_volume_24h |-> 100]
CandidateLists == {<<>>, <<PoolA>>, <<PoolA, PoolB, PoolC>>, <<PoolC, PoolB>>}
\* GET https://dlmm-api.meteora.ag/pair/<address>: the pool's bin_step
BinStepOf(address) ==
    CASE address = "poolA" -> 5 [] address = "poolB" -> 500 [] address = "poolC" -> 250
      [] OTHER -> 0
InitialPositions == {NoPosition, [pool |-> "poolB", lower |-> 1, upper |-> 2]}

\* the locals of rebalancePosition and addLiquidity exist while they are in use:
\* the balances until the plan is made or the liquidity added, the plan for the swap
Locals(b, pl) ==
    /\ balances' = IF pc' \in {"rb_activeBin", "al_add"} THEN b ELSE NoBalances
    /\ plan' = IF pc' = "rb_swap" THEN pl ELSE NoPlan
Scope == Locals(balances, plan)

(***************************************************************************)
(* Steps shared by loadInitialState, optimize and their helpers.           *)
(***************************************************************************)
\* a variant of optimize() that goes from removeLiquidity straight to the rebalance
AfterBalancesNoCheck(p) ==
    CASE p = "lis_balances" -> "lis_verify"
      [] p = "rb_balances" -> "rb_activeBin"
      [] p = "rb_newBalances" -> "rb_delay"
      [] p = "al_balances" -> "al_add"
      [] p = "rl_balances" -> "rb_balances"
\* where a method continues when a helper has returned
AfterBalances(p) ==
    CASE p = "lis_balances" -> "lis_verify"
      [] p = "rb_balances" -> "rb_activeBin"
      [] p = "rb_newBalances" -> "rb_delay"
      [] p = "al_balances" -> "al_add"
      [] p = "rl_balances" -> "op_verify"
\* a variant of optimize() that selects a pool again before it rebalances
AfterVerifyReselect(p) ==
    CASE p = "lis_verify" -> "lis_getPositions"
      [] p = "op_verify" -> "lis_getPools"
      [] p = "al_verify" -> "al_balances"
AfterVerify(p) ==
    CASE p = "lis_verify" -> "lis_getPositions"
      [] p = "op_verify" -> "rb_balances"
      [] p = "al_verify" -> "al_balances"

\* getUsableBalances(): two wallet reads; the result is kept where the caller uses it
GetUsableBalances ==
    /\ Alive /\ pc \in {"lis_balances", "rb_balances", "rb_newBalances", "al_balances", "rl_balances"}
    /\ \/ \E rawA \in Balances, rawB \in Balances :
            /\ IF pc = "rb_balances" /\ workingPoolAddress = Undefined
               THEN Raise(ErrNoWorkingPool, log)
               ELSE Enter(AfterBalances(pc), log)
            /\ Locals(UsableBalances(rawA, rawB), plan)
       \/ \E e \in WalletErrors : Raise(e, log) /\ Scope
    /\ UNCHANGED <<ctrlVars, configVars, fnVars, activeBin, nativeBalance, histVars, chainPos>>

\* a variant that tests the buffer-adjusted balance instead of the raw one
BufferTooLowAdjusted(raw) == Usable(raw, TRUE) < NATIVE_TOKEN_FEE_BUFFER
\* verifyNativeTokenBuffer(): the raw native balance against the buffer
BufferTooLow(raw) == raw < NATIVE_TOKEN_FEE_BUFFER
VerifyNativeTokenBuffer ==
    /\ Alive /\ pc \in {"lis_verify", "op_verify", "al_verify"}
    /\ \/ \E raw \in Balances :
            /\ nativeBalance' = [read |-> TRUE, raw |-> raw]
            /\ IF BufferTooLow(raw)
               THEN Raise(ErrFeeBuffer, Append(log, Alert("feeBuffer", ErrFeeBuffer)))
               ELSE Enter(AfterVerify(pc), Append(log, Ev("feeCheck", "")))
       \/ \E e \in WalletErrors : Raise(e, log) /\ UNCHANGED nativeBalance
    /\ Scope /\ UNCHANGED <<ctrlVars, configVars, fnVars, activeBin, histVars, chainPos>>

(***************************************************************************)
(* loadInitialState()                                                      *)
(***************************************************************************)
\* a variant that takes the branch for an empty wallet whatever getPositions answered
NoPositionsAlways(position) == TRUE
\* positions.size === 0
NoPositions(position) == position = NoPosition

\* retry(() => meteora.getPositions()), then the branch on positions.size; with a
\* position the pool address is adopted before getBinStep is awaited
LisGetPositions ==
    /\ pc = "lis_getPositions" /\ RetryCanInvoke
    /\ \/ /\ NoPositions(chainPos)
          /\ RetryThen("positions", "lis_getPools", log)
          /\ UNCHANGED ctrlVars
       \/ /\ ~NoPositions(chainPos)
          /\ workingPoolAddress' = chainPos.pool
          /\ RetryThen("positions", "lis_getBinStep", log)
          /\ UNCHANGED <<workingPoolBinStep, currLowerBinId, currUpperBinId>>
       \/ \E e \in ProtocolErrors : RetryFails(e, log) /\ UNCHANGED ctrlVars
    /\ issued' = issued \cup {"getPositions"}
    /\ Scope /\ UNCHANGED <<configVars, fnVars, activeBin, nativeBalance, pre, chainPos>>

\* getGoodPool(): retry(() => meteora.getPools(...)) under its own try/catch, then
\* lines 187-199 of loadInitialState
LisGetPools ==
    /\ pc = "lis_getPools" /\ RetryCanInvoke
    /\ issued' = issued \cup {"getPools"}
    /\ \/ \E pools \in CandidateLists :
            LET pool == GetGoodPool(pools, positionRangePerSide) IN
            IF pool = NoPool
            THEN /\ RetryReturns("pools")
                 /\ LisReturns("false", log)
                 /\ UNCHANGED ctrlVars
            ELSE /\ workingPoolAddress' = pool.address
                 /\ workingPoolBinStep' = pool.bin_step
                 /\ RetryThen("pools", "rb_balances", log)
                 /\ UNCHANGED <<currLowerBinId, currUpperBinId>>
       \/ \E e \in ProtocolErrors : RetryFails(e, log) /\ UNCHANGED ctrlVars
    /\ Scope /\ UNCHANGED <<configVars, fnVars, activeBin, nativeBalance, pre, chainPos>>

\* getBinStep(): one fetch under its own try/catch (undefined on failure), then
\* lines 208-225: the bin step is stored before it is tested
LisGetBinStep ==
    /\ Alive /\ pc = "lis_getBinStep"
    /\ \/ /\ workingPoolBinStep' = BinStepOf(workingPoolAddress)
          /\ IF BinStepOf(workingPoolAddress) = 0
             THEN /\ Raise(ErrBinStep, log)
                  /\ UNCHANGED <<currLowerBinId, currUpperBinId>>
             ELSE /\ currLowerBinId' = chainPos.lower
                  /\ currUpperBinId' = chainPos.upper
                  /\ LisReturns("false", log) /\ UNCHANGED retryVars
       \/ \E e \in WalletErrors :
            /\ workingPoolBinStep' = 0
            /\ Raise(ErrBinStep, Append(log, Alert("getBinStep", e)))
            /\ UNCHANGED <<currLowerBinId, currUpperBinId>>
    /\ Scope /\ UNCHANGED <<workingPoolAddress, configVars, fnVars, activeBin, nativeBalance, histVars, chainPos>>

(***************************************************************************)
(* rebalancePosition()                                                     *)
(***************************************************************************)
\* retry(() => meteora.getActiveBin(...)), then the 50/50 plan
RbActiveBin ==
    /\ pc = "rb_activeBin" /\ RetryCanInvoke
    /\ \/ \E price \in Prices :
            LET p == RebalancePlan(balances.a, balances.b, price) IN
            /\ RetryThen("activeBin", IF SwapExecuted(p) THEN "rb_swap" ELSE "rb_newBalances", log)
            /\ Locals(balances, p)
       \/ \E e \in ProtocolErrors : RetryFails(e, log) /\ Scope
    /\ issued' = issued \cup {"getActiveBin"}
    /\ UNCHANGED <<ctrlVars, configVars, fnVars, activeBin, nativeBalance, pre, chainPos>>

\* a variant with two independent ifs: after selling A the B branch runs as well
AfterSwapBothBranches(dir) == IF dir = "sellA" THEN "rb_swap" ELSE "rb_newBalances"
\* if / else if: after the swap of one branch the other branch is not entered
AfterSwap(dir) == "rb_newBalances"

\* retry(() => jupiter.swap(...)) in the planned direction
RbSwap ==
    /\ pc = "rb_swap" /\ RetryCanInvoke
    /\ issued' = issued \cup {"swap"}
    /\ \/ RetryThen("output", AfterSwap(plan.dir), Append(log, Ev("swap", plan.dir)))
       \/ \E e \in ProtocolErrors : RetryFails(e, log)
    /\ Scope /\ UNCHANGED <<ctrlVars, configVars, fnVars, activeBin, nativeBalance, pre, chainPos>>

\* the 5 seconds for the wallet to catch up; rebalancePosition returns
RbDelay ==
    /\ Alive /\ pc = "rb_delay"
    /\ Enter("al_verify", Append(log, Ev("rebalance", "")))
    /\ Scope /\ UNCHANGED <<ctrlVars, configVars, fnVars, activeBin, nativeBalance, histVars, chainPos>>

(***************************************************************************)
(* addLiquidity()                                                          *)
(***************************************************************************)
\* addLiquidity() has returned: loadInitialState and optimize both return true
AfterAddLiquidity(lg) ==
    IF ctx = "tick" THEN TickReturns("true", caught, lisResult, lg) ELSE LisReturns("true", lg)

\* retry(() => meteora.addLiquidity(...)): the chain opens a position of
\* rangeInterval bins on each side of the bin that is active then
AlAdd ==
    /\ pc = "al_add" /\ RetryCanInvoke
    /\ issued' = issued \cup {"addLiquidity"}
    /\ \/ \E c \in Bins :
            LET r == RangeInterval(positionRangePerSide, workingPoolBinStep) IN
            /\ chainPos' = [pool |-> workingPoolAddress, lower |-> c - r, upper |-> c + r]
            /\ RetryThen("position", "al_lookup1", Append(log, Ev("addLiquidity", "")))
       \/ \E e \in ProtocolErrors : RetryFails(e, log) /\ UNCHANGED chainPos
    /\ Scope /\ UNCHANGED <<ctrlVars, configVars, fnVars, activeBin, nativeBalance, pre>>

\* what getPositionsFromPool can answer: the pool's position, or nothing yet
PositionsFromPool(address) ==
    {<<>>} \cup (IF chainPos # NoPosition /\ chainPos.pool = address THEN {<<chainPos>>} ELSE {})

\* a variant that leaves the stored bin ids as they are
RecordedRangeKept(positions) == <<currLowerBinId, currUpperBinId>>
\* lines 357-359: the bin ids of positions[0].positionData
RecordedRange(positions) == <<positions[1].lower, positions[1].upper>>

\* retry(() => meteora.getPositionsFromPool(...)), once more if the list is empty,
\* then lines 357-359: positions[0].positionData
AlLookup ==
    /\ pc \in {"al_lookup1", "al_lookup2"} /\ RetryCanInvoke
    /\ \/ \E positions \in PositionsFromPool(workingPoolAddress) :
            IF Len(positions) = 0
            THEN /\ IF pc = "al_lookup1"
                    THEN RetryThen("positions", "al_lookup2", log)
                    ELSE RetryReturns("positions") /\ Throw(ErrTypeError, log)
                 /\ UNCHANGED ctrlVars
            ELSE /\ currLowerBinId' = RecordedRange(positions)[1]
                 /\ currUpperBinId' = RecordedRange(positions)[2]
                 /\ RetryReturns("positions")
                 /\ AfterAddLiquidity(Append(log, Ev("recorded", "")))
                 /\ UNCHANGED <<workingPoolAddress, workingPoolBinStep>>
       \/ \E e \in PositionErrors : RetryFails(e, log) /\ UNCHANGED ctrlVars
    /\ issued' = issued \cup {"getPositionsFromPool"}
    /\ Scope /\ UNCHANGED <<configVars, fnVars, activeBin, nativeBalance, pre, chainPos>>

(***************************************************************************)
(* removeLiquidity()                                                       *)
(***************************************************************************)
\* retry(() => meteora.removeLiquidity({shouldClosePosition: true, ...})): the
\* call can only succeed on a position of the working pool, which it closes
RlRemove ==
    /\ pc = "rl_remove" /\ RetryCanInvoke
    /\ issued' = issued \cup {"removeLiquidity"}
    /\ \/ /\ chainPos # NoPosition /\ chainPos.pool = workingPoolAddress
          /\ chainPos' = NoPosition
          /\ RetryThen("removed", "rl_delay", Append(log, Ev("removeLiquidity", "")))
       \/ \E e \in PositionErrors : RetryFails(e, log) /\ UNCHANGED chainPos
    /\ Scope /\ UNCHANGED <<ctrlVars, configVars, fnVars, activeBin, nativeBalance, pre>>

\* the 5 seconds before the balances are read again
RlDelay ==
    /\ Alive /\ pc = "rl_delay"
    /\ Enter("rl_balances", log)
    /\ Scope /\ UNCHANGED <<ctrlVars, configVars, fnVars, activeBin, nativeBalance, histVars, chainPos>>

(***************************************************************************)
(* optimize()                                                              *)
(***************************************************************************)
\* a variant without the guard of line 390
HasWorkingPoolUnchecked(address) == TRUE
\* !this.workingPoolAddress, negated
HasWorkingPool(address) == address # Undefined

\* line 390: without a working pool the tick throws inside its own try
OpStart ==
    /\ Alive /\ pc = "op_start"
    /\ IF ~HasWorkingPool(workingPoolAddress)
       THEN Raise(ErrNoWorkingPool, log)
       ELSE Enter("op_activeBin", log)
    /\ Scope /\ UNCHANGED <<ctrlVars, configVars, fnVars, activeBin, nativeBalance, histVars, chainPos>>

\* retry(() => meteora.getActiveBin(...)), then the comparison with the stored range
OpActiveBin ==
    /\ pc = "op_activeBin" /\ RetryCanInvoke
    /\ \/ \E bin \in Bins :
            /\ activeBin' = [read |-> TRUE, binId |-> bin]
            /\ IF InRange(bin, currLowerBinId, currUpperBinId)
               THEN /\ RetryReturns("activeBin")
                    /\ TickReturns("false", caught, lisResult, log)
               ELSE RetryThen("activeBin", "rl_remove", log)
       \/ \E e \in ProtocolErrors : RetryFails(e, log) /\ UNCHANGED activeBin
    /\ issued' = issued \cup {"getActiveBin"}
    /\ Scope
    /\ UNCHANGED <<ctrlVars, configVars, fnVars, nativeBalance, pre, chainPos>>

(***************************************************************************)
(* main() and runOptimizationLoop()                                        *)
(***************************************************************************)
\* setTimeout(runOptimizationLoop, 10 * 1000) fires, or await delay(10 * 1000) ends
DelayElapses ==
    /\ loop \in {"initialDelay", "pollDelay"}
    /\ loop' = "tickDue"
    /\ UNCHANGED <<exitCause, pc, ctx, caught, result, lisResult, lisRuns, inFlight, log>>
    /\ UNCHANGED <<ctrlVars, configVars, fnVars, retryVars, localVars, histVars, chainPos>>

\* a variant that does not await optimize() and goes on to the delay
LoopAfterCallNoAwait == "pollDelay"
\* runOptimizationLoop awaits optimize(): nothing else runs until it settles
LoopAfterCall == "inTick"

\* runOptimizationLoop calls optimize()
StartTick ==
    /\ loop = "tickDue"
    /\ Flow(LoopAfterCall, exitCause, "op_start", "tick", NoError, "none", "none", 0,
            inFlight + 1, <<>>)
    /\ issued' = {}
    /\ pre' = <<workingPoolAddress, workingPoolBinStep, currLowerBinId, currUpperBinId>>
    /\ activeBin' = NoActiveBin /\ nativeBalance' = NoNativeBalance
    /\ RetryEnter /\ Scope
    /\ UNCHANGED <<ctrlVars, configVars, fnVars, chainPos>>

\* SIGINT or SIGTERM: cleanupAndExit() calls process.exit at once
Signal ==
    /\ Alive
    /\ loop' = "exited" /\ exitCause' = "signal"
    /\ UNCHANGED <<pc, ctx, caught, result, lisResult, lisRuns, inFlight, log>>
    /\ UNCHANGED <<ctrlVars, configVars, fnVars, retryVars, localVars, histVars, chainPos>>

\* main() has built the controller and awaits loadInitialState()
Init ==
    /\ workingPoolAddress = Undefined /\ workingPoolBinStep = 0
    /\ currLowerBinId = 0 /\ currUpperBinId = 0
    /\ positionRangePerSide \in PositionRanges /\ nativeAsset \in {"a", "b", "none"}
    /\ loop = "coldStart" /\ exitCause = "none" /\ pc = "lis_balances" /\ ctx = "cold"
    /\ retries = DefaultRetries
    /\ attempt = 0 /\ retryWait = FALSE /\ lastError = NoError /\ outcomes = <<>>
    /\ delays = 0 /\ retryOutcome = NoOutcome
    /\ caught = NoError /\ balances = NoBalances /\ plan = NoPlan
    /\ activeBin = NoActiveBin /\ nativeBalance = NoNativeBalance /\ chainPos \in InitialPositions
    /\ log = <<>> /\ issued = {} /\ result = "none" /\ lisResult = "none"
    /\ lisRuns = 1 /\ inFlight = 0 /\ pre = <<Undefined, 0, 0, 0>>
    /\ args = NoCall /\ value = NoValue

Next ==
    \/ GetUsableBalances \/ VerifyNativeTokenBuffer \/ RetryDelay
    \/ LisGetPositions \/ LisGetPools \/ LisGetBinStep
    \/ RbActiveBin \/ RbSwap \/ RbDelay
    \/ AlAdd \/ AlLookup
    \/ RlRemove \/ RlDelay
    \/ OpStart \/ OpActiveBin
    \/ DelayElapses \/ StartTick \/ Signal

Spec == Init /\ [][Next]_vars

(***************************************************************************)
(* retry() on its own: an operation that answers each invocation with a    *)
(* value or an error, and retries drawn from -1..MaxAttempts.              *)
(***************************************************************************)
Values == {"v1", "v2"}

HarnessInvoke ==
    /\ pc = "harness" /\ RetryCanInvoke
    /\ \/ \E val \in Values :
            /\ RetryReturns(val)
            /\ Goto("harness_done", log)
       \/ \E e \in ExternalErrors : RetryFails(e, log)
    /\ Scope /\ UNCHANGED <<ctrlVars, configVars, fnVars, activeBin, nativeBalance, histVars, chainPos>>

\* retries <= 0: the loop body never runs and `throw lastError` raises undefined
HarnessEmpty ==
    /\ pc = "harness" /\ Alive /\ ~retryWait /\ attempt >= retries
    /\ retryOutcome' = [kind |-> "threw", v |-> lastError]
    /\ UNCHANGED <<retries, attempt, retryWait, lastError, outcomes, delays>>
    /\ Throw(lastError, log)
    /\ Scope /\ UNCHANGED <<ctrlVars, configVars, fnVars, activeBin, nativeBalance, histVars, chainPos>>

RetryInit ==
    /\ workingPoolAddress = Undefined /\ workingPoolBinStep = 0
    /\ currLowerBinId = 0 /\ currUpperBinId = 0
    /\ positionRangePerSide = 500 /\ nativeAsset = "a"
    /\ loop = "harness" /\ exitCause = "none" /\ pc = "harness" /\ ctx = "harness"
    /\ retries \in -1 .. MaxAttempts
    /\ attempt = 0 /\ retryWait = FALSE /\ lastError = NoError /\ outcomes = <<>>
    /\ delays = 0 /\ retryOutcome = NoOutcome
    /\ caught = NoError /\ balances = NoBalances /\ plan = NoPlan
    /\ activeBin = NoActiveBin /\ nativeBalance = NoNativeBalance /\ chainPos = NoPosition
    /\ log = <<>> /\ issued = {} /\ result = "none" /\ lisResult = "none"
    /\ lisRuns = 0 /\ inFlight = 0 /\ pre = <<Undefined, 0, 0, 0>>
    /\ args = NoCall /\ value = NoValue

RetryNext == HarnessInvoke \/ HarnessEmpty \/ RetryDelay

RetrySpec == RetryInit /\ [][RetryNext]_vars

(***************************************************************************)
(* The pure helpers on their own: the arguments are drawn at the start,    *)
(* one step calls the helper and keeps what it returned.                   *)
(***************************************************************************)
\* the controller is idle while a helper is computed on its own
HelperIdle ==
    /\ workingPoolAddress = Undefined /\ workingPoolBinStep = 0
    /\ currLowerBinId = 0 /\ currUpperBinId = 0
    /\ loop = "harness" /\ exitCause = "none" /\ pc = "helper" /\ ctx = "harness"
    /\ retries = DefaultRetries
    /\ attempt = 0 /\ retryWait = FALSE /\ lastError = NoError /\ outcomes = <<>>
    /\ delays = 0 /\ retryOutcome = NoOutcome
    /\ caught = NoError /\ balances = NoBalances /\ plan = NoPlan
    /\ activeBin = NoActiveBin /\ nativeBalance = NoNativeBalance /\ chainPos = NoPosition
    /\ log = <<>> /\ issued = {} /\ result = "none" /\ lisResult = "none"
    /\ lisRuns = 0 /\ inFlight = 0 /\ pre = <<Undefined, 0, 0, 0>>
helperFrame == <<ctrlVars, configVars, flowVars, retryVars, localVars, histVars, chainPos>>

\* what meteora.getPools can answer: up to MaxPools pools, each with its own address,
\* a bin step below, at or above the minimum and a volume in 0..MaxVolume
PoolNames == <<"poolA", "poolB", "poolC", "poolD", "poolE">>
SelectorBinSteps == {10, 15, 20}
SelectorRanges == {340, 500}
PoolLists ==
    UNION {{[i \in 1 .. n |-> [address |-> PoolNames[i], bin_step |-> f[i][1],
                               trade_volume_24h |-> f[i][2]]] :
            f \in [1 .. n -> SelectorBinSteps \X (0 .. MaxVolume)]} : n \in 0 .. MaxPools}

\* lines 109-122 of getGoodPool on the list the query answered
SelectPool ==
    /\ args.fn = "getGoodPool" /\ ~value.done
    /\ value' = [done |-> TRUE, out |-> GetGoodPool(args.pools, positionRangePerSide)]
    /\ UNCHANGED <<args, helperFrame>>

PoolInit ==
    /\ HelperIdle /\ nativeAsset = "a" /\ positionRangePerSide \in SelectorRanges
    /\ args \in {[fn |-> "getGoodPool", pools |-> l] : l \in PoolLists}
    /\ value = NoValue
PoolNext == SelectPool
PoolSpec == PoolInit /\ [][PoolNext]_vars

\* lines 257-303 of rebalancePosition on the balances and the price it read
PlanRebalance ==
    /\ args.fn = "rebalancePosition" /\ ~value.done
    /\ value' = [done |-> TRUE, out |-> RebalancePlan(args.a, args.b, args.price)]
    /\ UNCHANGED <<args, helperFrame>>

RebalanceInit ==
    /\ HelperIdle /\ nativeAsset = "a" /\ positionRangePerSide \in PositionRanges
    /\ args \in {[fn |-> "rebalancePosition", a |-> a, b |-> b, price |-> price] :
                    a \in 0 .. MaxAmount, b \in 0 .. MaxAmount, price \in Prices}
    /\ value = NoValue
RebalanceNext == PlanRebalance
RebalanceSpec == RebalanceInit /\ [][RebalanceNext]_vars

\* rebalancePosition from the plan to its return, for balances counted in
\* thousandths of a token: the plan, whether jupiter.swap was called, and whether
\* the method returned without an error when every call succeeded
RebalanceFromPlan ==
    /\ args.fn = "rebalanceFromPlan" /\ ~value.done
    /\ LET p == RebalancePlan(args.a, args.b, args.price) IN
       value' = [done |-> TRUE, out |-> p, swapped |-> SwapExecuted(p), returned |-> TRUE]
    /\ UNCHANGED <<args, helperFrame>>

GateInit ==
    /\ HelperIdle /\ nativeAsset = "a" /\ positionRangePerSide \in PositionRanges
    /\ args \in {[fn |-> "rebalanceFromPlan", a |-> a, b |-> b, price |-> price] :
                    a \in 0 .. MaxDust, b \in 0 .. MaxDust, price \in Prices}
    /\ value = NoValue
GateNext == RebalanceFromPlan
GateSpec == GateInit /\ [][GateNext]_vars

\* the amounts the controller asks for, from the raw balances one balance query
\* read: rebalancePosition's jupiter.swap (lines 232-298) takes the amount of the
\* plan, addLiquidity's meteora.addLiquidity (lines 325-335) the two usable balances
RequestSwap ==
    /\ args.fn = "amounts" /\ ~value.done
    /\ LET usable == UsableBalances(args.rawA, args.rawB)
           p == RebalancePlan(usable.a, usable.b, args.price) IN
       value' = [done |-> TRUE, call |-> IF SwapExecuted(p) THEN "swap" ELSE "none",
                 asset |-> IF p.dir = "sellB" THEN "b" ELSE "a", num |-> p.num, den |-> p.den]
    /\ UNCHANGED <<args, helperFrame>>
RequestAddLiquidity ==
    /\ args.fn = "amounts" /\ ~value.done
    /\ LET usable == UsableBalances(args.rawA, args.rawB) IN
       value' = [done |-> TRUE, call |-> "addLiquidity", amount |-> usable.a,
                 amountB |-> usable.b]
    /\ UNCHANGED <<args, helperFrame>>

AmountInit ==
    /\ HelperIdle /\ nativeAsset \in {"a", "b", "none"} /\ positionRangePerSide \in PositionRanges
    /\ args \in {[fn |-> "amounts", rawA |-> rawA, rawB |-> rawB, price |-> price] :
                    rawA \in 0 .. MaxAmount, rawB \in 0 .. MaxAmount, price \in Prices}
    /\ value = NoValue
AmountNext == RequestSwap \/ RequestAddLiquidity
AmountSpec == AmountInit /\ [][AmountNext]_vars

\* a variant that keeps the balance of an earlier call instead of reading again
ReadBalanceCached(earlier, held) == IF earlier.done THEN earlier.raw ELSE held
\* await this.wallet.getBalance(asset): what the wallet holds now
ReadBalance(earlier, held) == held

\* getUsableBalances() against a wallet whose balances change between calls: args
\* is what the wallet holds, value the raw balances read, the result returned and
\* whether the wallet has changed since
CallGetUsableBalances ==
    /\ args.fn = "getUsableBalances"
    /\ LET rawA == ReadBalance([done |-> value.done, raw |-> IF value.done THEN value.rawA ELSE 0],
                               args.rawA)
           rawB == ReadBalance([done |-> value.done, raw |-> IF value.done THEN value.rawB ELSE 0],
                               args.rawB)
       IN value' = [done |-> TRUE, latest |-> TRUE, rawA |-> rawA, rawB |-> rawB,
                    out |-> UsableBalances(rawA, rawB)]
    /\ UNCHANGED <<args, helperFrame>>

\* a deposit, a withdrawal or a fee changes what the wallet holds
WalletChanges ==
    /\ args.fn = "getUsableBalances"
    /\ \E rawA \in 0 .. MaxAmount, rawB \in 0 .. MaxAmount :
            args' = [fn |-> "getUsableBalances", rawA |-> rawA, rawB |-> rawB]
    /\ value' = IF value.done THEN [value EXCEPT !.latest = FALSE] ELSE value
    /\ UNCHANGED helperFrame

BalanceInit ==
    /\ HelperIdle /\ nativeAsset \in {"a", "b", "none"} /\ positionRangePerSide \in PositionRanges
    /\ args \in {[fn |-> "getUsableBalances", rawA |-> rawA, rawB |-> rawB] :
                    rawA \in 0 .. MaxAmount, rawB \in 0 .. MaxAmount}
    /\ value = NoValue
BalanceNext == CallGetUsableBalances \/ WalletChanges
BalanceSpec == BalanceInit /\ [][BalanceNext]_vars

\* the configured ranges the interval is computed for, in basis points
IntervalRanges == {1, 34, 100, 340, 350, 500, 690, 700, 1000}

\* lines 326-336 of addLiquidity for a working pool of bin step args.binStep: the
\* rangeInterval given to meteora.addLiquidity, and whether getGoodPool would
\* have selected a pool of that bin step
ComputeRangeInterval ==
    /\ args.fn = "addLiquidity" /\ ~value.done
    /\ value' = [done |-> TRUE,
                 rangeInterval |-> RangeInterval(positionRangePerSide, args.binStep),
                 selected |-> GetGoodPool(<<[address |-> "poolA", bin_step |-> args.binStep,
                                             trade_volume_24h |-> 0]>>,
                                          positionRangePerSide) # NoPool]
    /\ UNCHANGED <<args, helperFrame>>

IntervalInit ==
    /\ HelperIdle /\ nativeAsset = "a" /\ positionRangePerSide \in IntervalRanges
    /\ args \in {[fn |-> "addLiquidity", binStep |-> b] : b \in 1 .. MaxBinStep}
    /\ value = NoValue
IntervalNext == ComputeRangeInterval
IntervalSpec == IntervalInit /\ [][IntervalNext]_vars

\* the asset names a controller can be constructed with
AssetNames == {"sol", "SOL", "Sol", "usdc", "USDC", "bonk"}
\* assetA.toLowerCase()
ToLowerCase(name) ==
    CASE name \in {"sol", "SOL", "Sol"} -> "sol"
      [] name \in {"usdc", "USDC"} -> "usdc"
      [] OTHER -> name
\* assetA.toLowerCase() === 'sol'
IsNative(name) == ToLowerCase(name) = "sol"
\* a variant of the constructor without the test of line 49
BothNativeUnchecked(isAssetANative, isAssetBNative) == FALSE
\* this.isAssetANative && this.isAssetBNative
BothNative(isAssetANative, isAssetBNative) == isAssetANative /\ isAssetBNative

\* new MeteoraOptimizer(wallet, assetA, assetB): the fields are set, then the test
\* of line 49 throws and no controller comes out of `new`
Construct ==
    /\ args.fn = "constructor" /\ ~value.done
    /\ positionRangePerSide' = args.range
    /\ IF BothNative(IsNative(args.assetA), IsNative(args.assetB))
       THEN /\ value' = [done |-> TRUE, threw |-> TRUE, isAssetANative |-> FALSE,
                         isAssetBNative |-> FALSE]
            /\ UNCHANGED nativeAsset
       ELSE /\ value' = [done |-> TRUE, threw |-> FALSE,
                         isAssetANative |-> IsNative(args.assetA),
                         isAssetBNative |-> IsNative(args.assetB)]
            /\ nativeAsset' = IF IsNative(args.assetA) /\ IsNative(args.assetB) THEN "both"
                              ELSE IF IsNative(args.assetA) THEN "a"
                              ELSE IF IsNative(args.assetB) THEN "b"
                              ELSE "none"
    /\ UNCHANGED <<args, ctrlVars, flowVars, retryVars, localVars, histVars, chainPos>>

ConstructInit ==
    /\ HelperIdle /\ nativeAsset = "none" /\ positionRangePerSide = 0
    /\ args \in {[fn |-> "constructor", assetA |-> a, assetB |-> b, range |-> r] :
                    a \in AssetNames, b \in AssetNames, r \in SelectorRanges}
    /\ value = NoValue
ConstructNext == Construct
ConstructSpec == ConstructInit /\ [][ConstructNext]_vars

(***************************************************************************)
(* The loop after a tick that closed the position and then failed, with an  *)
(* environment that is well from then on: every call answers, the native    *)
(* balance covers the fee buffer, the pool query answers an eligible pool;   *)
(* no signal arrives.  The timers fire and the calls return, so the loop     *)
(* keeps taking steps.                                                       *)
(***************************************************************************)
\* the stored state and the chain after a tick whose removeLiquidity succeeded
\* and whose swap ran out of funds
AfterPartialFailure ==
    /\ workingPoolAddress = "poolB" /\ workingPoolBinStep = 500
    /\ currLowerBinId = 1 /\ currUpperBinId = 2
    /\ positionRangePerSide = 500
    /\ loop = "pollDelay" /\ exitCause = "none" /\ pc = "idle" /\ ctx = "none"
    /\ retries = DefaultRetries
    /\ attempt = 0 /\ retryWait = FALSE /\ lastError = ErrInsufficientRaw /\ outcomes = <<>>
    /\ delays = 0 /\ retryOutcome = [kind |-> "threw", v |-> ErrInsufficientFunds]
    /\ caught = ErrInsufficientFunds /\ balances = NoBalances /\ plan = NoPlan
    /\ activeBin = [read |-> TRUE, binId |-> 0]
    /\ nativeBalance = [read |-> TRUE, raw |-> 1] /\ chainPos = NoPosition
    /\ log = <<Ev("removeLiquidity", ""), Ev("feeCheck", ""),
               Alert("optimizeMeteora", ErrInsufficientFunds)>>
    /\ issued = {"getActiveBin", "swap", "removeLiquidity"}
    /\ result = "false" /\ lisResult = "none"
    /\ lisRuns = 0 /\ inFlight = 0 /\ pre = <<"poolB", 500, 1, 2>>
    /\ args = NoCall /\ value = NoValue

\* a step in which nothing fails that could have succeeded: the only error is
\* removeLiquidity finding no position when the wallet has none
NoFailure ==
    /\ lastError' # lastError =>
          \/ lastError' = NoError
          \/ lastError' = ErrPositionNotFound /\ pc = "rl_remove" /\ chainPos = NoPosition
    /\ caught' # caught => caught' \in {NoError, ErrPositionNotFound}
    /\ result' # "threw" /\ lisResult' \notin {"false", "threw"}
    /\ nativeBalance'.read => nativeBalance'.raw >= NATIVE_TOKEN_FEE_BUFFER

ReentryInit == AfterPartialFailure /\ nativeAsset \in {"a", "b", "none"}
ReentryNext ==
    \/ GetUsableBalances /\ NoFailure
    \/ VerifyNativeTokenBuffer /\ NoFailure
    \/ RetryDelay /\ NoFailure
    \/ LisGetPositions /\ NoFailure
    \/ LisGetPools /\ NoFailure
    \/ RbActiveBin /\ NoFailure
    \/ RbSwap /\ NoFailure
    \/ RbDelay /\ NoFailure
    \/ AlAdd /\ NoFailure
    \/ AlLookup /\ NoFailure
    \/ RlRemove /\ NoFailure
    \/ RlDelay /\ NoFailure
    \/ OpStart /\ NoFailure
    \/ OpActiveBin /\ NoFailure
    \/ DelayElapses /\ NoFailure
    \/ StartTick /\ NoFailure
ReentrySpec == ReentryInit /\ [][ReentryNext]_vars /\ WF_vars(ReentryNext)

(***************************************************************************)
(* Properties.                                                             *)
(***************************************************************************)
FeeConsuming == {"removeLiquidity", "swap", "addLiquidity"}
Stored == <<workingPoolAddress, workingPoolBinStep, currLowerBinId, currUpperBinId>>
TickOver == result # "none"
LogEvents == [i \in 1 .. Len(log) |-> log[i].ev]
LastLog == log[Len(log)]
ObservedInRange == activeBin.read /\ pre[3] <= activeBin.binId /\ activeBin.binId <= pre[4]
ObservedOutOfRange == activeBin.read /\ (activeBin.binId < pre[3] \/ activeBin.binId > pre[4])

\* C1: a tick that reads an active bin id with lowerBinId <= binId <= upperBinId
\* (both bounds included) has returned false, without any removeLiquidity, swap or
\* addLiquidity call and without an alert, and the stored pool address, bin step
\* and range are what they were when the tick started.
C1_InRangeTickUnchanged ==
    ObservedInRange =>
        /\ result = "false" /\ pc = "idle"
        /\ issued \cap FeeConsuming = {}
        /\ log = <<>>
        /\ Stored = pre
C1_Witness ==
    /\ ObservedInRange /\ pre[3] < pre[4] /\ activeBin.binId = pre[4]
    /\ result = "false" /\ pre[1] # Undefined

\* C2: a tick returns true only after it has read an active bin outside the stored
\* range and completed, in this order, removeLiquidity, the fee-buffer check, the
\* rebalance with at most one swap, and addLiquidity (with its own check), and
\* has stored the range of the new position; a tick that read an out-of-range bin
\* and ended without any error returned true.
RepositionNoSwap ==
    <<"removeLiquidity", "feeCheck", "rebalance", "feeCheck", "addLiquidity", "recorded">>
RepositionOneSwap ==
    <<"removeLiquidity", "feeCheck", "swap", "rebalance", "feeCheck", "addLiquidity", "recorded">>
C2_RepositionInOrder ==
    /\ result = "true" =>
          /\ ObservedOutOfRange
          /\ LogEvents \in {RepositionNoSwap, RepositionOneSwap}
          /\ chainPos # NoPosition
          /\ currLowerBinId = chainPos.lower /\ currUpperBinId = chainPos.upper
          /\ pc = "idle"
    /\ (TickOver /\ ObservedOutOfRange /\ caught = NoError) => result = "true"
C2_Witness ==
    /\ result = "true" /\ activeBin.binId > pre[4] /\ LogEvents = RepositionOneSwap
    /\ <<currLowerBinId, currUpperBinId>> # <<pre[3], pre[4]>>

\* C3: no tick raises to its caller: every tick that has ended resolved with a
\* boolean.
C3_TickNeverRaises == TickOver => result \in {"true", "false"}

\* C4: when a step of a tick fails with an error other than position-not-found
\* (the error retry() raised, if it came out of retry()), the tick has sent the
\* alert 'In optimizeMeteora: <message>' as its last act and returned false, and
\* the loop goes on to the poll delay.
C4_FailureAlertedAndAbsorbed ==
    /\ (caught # NoError /\ ~IsPositionNotFound(caught)) =>
          /\ result = "false" /\ pc = "idle"
          /\ Len(log) > 0 /\ LastLog = Alert("optimizeMeteora", caught)
          /\ loop \in {"pollDelay", "tickDue"} \/ exitCause = "signal"
    /\ (TickOver /\ lisRuns = 0 /\ retryOutcome.kind = "threw") =>
          /\ caught = retryOutcome.v
          /\ result = "false"
C4_Witness ==
    /\ caught = ErrTransient /\ retryOutcome = [kind |-> "threw", v |-> ErrTransient]
    /\ attempt = DefaultRetries /\ delays = DefaultRetries - 1
    /\ result = "false" /\ loop = "pollDelay"

\* C5: when the error a tick catches is position-not-found, loadInitialState is
\* started, once and no more in that tick; the tick does not return while it
\* runs, and once it has returned, with true or with false, the tick has
\* returned false after the alert.
C5_RecoveryOnceThenUnchanged ==
    /\ lisRuns <= 1
    /\ IsPositionNotFound(caught) =>
          /\ lisRuns = 1
          /\ lisResult = "none" => (result = "none" /\ ctx = "recovery")
          /\ lisResult \in {"true", "false"} =>
                (result = "false" /\ LastLog = Alert("optimizeMeteora", caught))
          /\ result = "false" => lisResult \in {"true", "false"}
C5_Witness ==
    /\ IsPositionNotFound(caught) /\ lisResult = "true" /\ result = "false"
    /\ lisRuns = 1

\* C6: at most one optimize() call is in progress; while the loop waits for a
\* delay or is about to call optimize() none is; a call starts only from there,
\* and the loop gets there only by a delay elapsing after the previous cycle.
C6_SingleFlight ==
    /\ [](/\ inFlight \in {0, 1}
          /\ loop \in {"initialDelay", "pollDelay", "tickDue"} => (inFlight = 0 /\ pc = "idle")
          /\ inFlight = 1 => loop \in {"inTick", "exited"})
    /\ [][inFlight' > inFlight => (inFlight = 0 /\ loop = "tickDue")]_vars
    /\ [][(loop' = "tickDue" /\ loop # "tickDue") => loop \in {"initialDelay", "pollDelay"}]_vars
\* a tick in progress that follows a tick which closed the position
C6_Witness ==
    /\ loop = "inTick" /\ inFlight = 1 /\ pc = "op_activeBin"
    /\ chainPos = NoPosition /\ workingPoolAddress # Undefined

\* C7: the loop is not stopped by a recoverable failure: it never ends on an
\* insufficient-funds, transient or position-not-found error of a tick.
RecoverableErrors == {ErrTransient, ErrInsufficientRaw, ErrInsufficientFunds, ErrPositionNotFound}
C7_LoopDurable ==
    ~(exitCause = "tickError" /\ Len(log) > 0 /\ LastLog.ev = "rejected"
        /\ LastLog.msg \in RecoverableErrors)

(***************************************************************************)
(* Properties of retry() on its own (RetrySpec).                           *)
(***************************************************************************)
Invocations == Len(outcomes)
RetryDone == pc = "harness_done"
Failed(i) == ~outcomes[i].ok
FailedFatal(i) == ~outcomes[i].ok /\ outcomes[i].v = "insufficient funds"
FailedNonFatal(i) == ~outcomes[i].ok /\ outcomes[i].v # "insufficient funds"

\* C8: an invocation that fails with an insufficient-funds message is the last
\* one: retry has raised 'Insufficient funds' without a further delay; if it was
\* the first invocation, the operation ran once and no delay was observed.
C8_InsufficientFundsNotRetried ==
    \A i \in 1 .. Invocations :
        FailedFatal(i) =>
            /\ i = Invocations /\ RetryDone /\ ~retryWait
            /\ retryOutcome = [kind |-> "threw", v |-> ErrInsufficientFunds]
            /\ delays = i - 1
            /\ i = 1 => (Invocations = 1 /\ delays = 0)
C8_Witness ==
    /\ retries = MaxAttempts /\ Invocations = 1 /\ FailedFatal(1) /\ RetryDone
    /\ delays = 0

\* C9: after k non-fatal failures with k < maxAttempts retry is still running,
\* with one delay per failure once the next invocation is due; when an
\* invocation succeeds, retry has returned its value after k+1 invocations and
\* exactly k delays.
C9_SuccessAfterFailures ==
    /\ ((\A i \in 1 .. Invocations : FailedNonFatal(i)) /\ Invocations < retries) =>
          /\ pc = "harness"
          /\ delays = IF retryWait THEN Invocations - 1 ELSE Invocations
    /\ (Invocations >= 1 /\ outcomes[Invocations].ok) =>
          /\ RetryDone
          /\ retryOutcome = [kind |-> "returned", v |-> outcomes[Invocations].v]
          /\ \A i \in 1 .. Invocations - 1 : FailedNonFatal(i)
          /\ Invocations <= retries
          /\ delays = Invocations - 1
C9_Witness ==
    /\ retries = 3 /\ Invocations = 3 /\ FailedNonFatal(1) /\ FailedNonFatal(2)
    /\ outcomes[3] = [ok |-> TRUE, v |-> "v2"]
    /\ retryOutcome = [kind |-> "returned", v |-> "v2"] /\ delays = 2

\* C10: the operation is never invoked more than maxAttempts times; with
\* maxAttempts >= 1 and every invocation failing non-fatally, retry ends after
\* exactly maxAttempts invocations and maxAttempts - 1 delays, raising the error of
\* the last invocation.
C10_ExhaustedRaisesLast ==
    /\ Invocations <= Max(retries, 0)
    /\ (RetryDone /\ retries >= 1 /\ \A i \in 1 .. Invocations : FailedNonFatal(i)) =>
          /\ Invocations = retries
          /\ delays = retries - 1
          /\ retryOutcome = [kind |-> "threw", v |-> outcomes[Invocations].v]
C10_Witness ==
    /\ RetryDone /\ retries = 3 /\ Invocations = 3 /\ delays = 2
    /\ \A i \in 1 .. 3 : FailedNonFatal(i)
    /\ outcomes[1].v # outcomes[3].v
    /\ retryOutcome = [kind |-> "threw", v |-> outcomes[3].v]

(***************************************************************************)
(* Properties of the pure helpers.                                         *)
(***************************************************************************)
Eligible == {i \in 1 .. Len(args.pools) : args.pools[i].bin_step >= MinBinStep(positionRangePerSide)}

\* C11: the selected pool is a candidate with bin_step >= minBinStep whose volume
\* is at least that of every other such candidate, the first in list order among
\* those of the highest volume; a candidate below the minimum is never selected,
\* and no pool is selected exactly when no candidate reaches the minimum.
C11_PoolSelection ==
    (args.fn = "getGoodPool" /\ value.done) =>
        /\ (Eligible = {}) <=> (value.out = NoPool)
        /\ Eligible # {} =>
              \E i \in Eligible :
                  /\ value.out = args.pools[i]
                  /\ \A j \in Eligible :
                        /\ args.pools[j].trade_volume_24h <= args.pools[i].trade_volume_24h
                        /\ args.pools[j].trade_volume_24h = args.pools[i].trade_volume_24h => i <= j
\* the first pool is below the minimum with the highest volume, the other two tie
C11_Witness ==
    /\ args.fn = "getGoodPool" /\ value.done /\ Len(args.pools) = 3
    /\ 1 \notin Eligible /\ Eligible = {2, 3}
    /\ args.pools[1].trade_volume_24h > args.pools[2].trade_volume_24h
    /\ args.pools[2].trade_volume_24h = args.pools[3].trade_volume_24h
    /\ value.out = args.pools[2]

(***************************************************************************)
(* Properties of cold start and of the fee-buffer check.                   *)
(***************************************************************************)
Running == loop \in {"initialDelay", "pollDelay", "tickDue", "inTick"}
Unset == <<Undefined, 0, 0, 0>>

\* C12: a cold start that finds no position and selects no pool (none is eligible,
\* or the query failed for good) returns false without raising, having issued no
\* swap and no addLiquidity, with the working pool unset; every later tick then
\* returns false without a single protocol call, and no position is ever created.
C12_PoolNotFound ==
    /\ [](/\ (loop = "initialDelay" /\ workingPoolAddress = Undefined) =>
                /\ lisResult = "false" /\ "getPools" \in issued
                /\ issued \cap {"swap", "addLiquidity", "removeLiquidity"} = {}
                /\ Stored = Unset
          /\ (Running /\ workingPoolAddress = Undefined) => chainPos = NoPosition
          /\ (ctx = "tick" /\ workingPoolAddress = Undefined) => (pc = "op_start" /\ issued = {})
          /\ (TickOver /\ pre[1] = Undefined) =>
                (result = "false" /\ issued = {} /\ Stored = Unset /\ lisRuns = 0))
    /\ [][(pc = "lis_getPools" /\ ctx = "cold" /\ pc' # pc /\ workingPoolAddress' = Undefined)
            => (loop' = "initialDelay" /\ lisResult' = "false")]_vars
\* the tick after such a cold start has returned, the pool query having failed
C12_Witness ==
    /\ TickOver /\ pre[1] = Undefined /\ result = "false" /\ loop = "pollDelay"
    /\ caught = ErrNoWorkingPool

\* C13: a rebalance chooses exactly one of sell-A, sell-B and no swap; a swap is
\* executed only in the planned direction, and the call goes on to the closing
\* balance read after it: no two swaps (retries of one swap counted once) and no
\* swaps in both directions within one rebalance call.
C13_OneDirectionOneSwap ==
    /\ [](/\ plan.dir \in {"sellA", "sellB", "none"}
          /\ pc = "rb_swap" <=> plan.dir \in {"sellA", "sellB"}
          /\ \A i \in 1 .. Len(log) :
                log[i].ev = "swap" =>
                    /\ log[i].msg \in {"sellA", "sellB"}
                    /\ i < Len(log) => log[i + 1].ev # "swap")
    /\ [][(pc = "rb_activeBin" /\ pc' # pc /\ plan'.dir = "sellA") => balances.a > 0]_vars
    /\ [][(pc = "rb_activeBin" /\ pc' # pc /\ plan'.dir = "sellB") => balances.b > 0]_vars
    /\ [][(pc = "rb_swap" /\ Len(log') > Len(log) /\ log'[Len(log')].ev = "swap")
            => (pc' = "rb_newBalances" /\ log'[Len(log')].msg = plan.dir)]_vars
\* a cold start that sold B for A once and went on to create the position
C13_Witness ==
    /\ loop = "initialDelay" /\ lisResult = "true"
    /\ \E i \in 1 .. Len(log) : log[i] = Ev("swap", "sellB") /\ log[i + 1].ev = "rebalance"

\* C14: with total = a*price + b, targetB = total/2 and targetA = targetB/price, the
\* plan sells A exactly when a > targetA, the amount being a - targetA; sells B
\* exactly when a <= targetA and b > targetB, the amount being b - targetB; plans no
\* swap when a = targetA and b = targetB; the amount never exceeds the balance of
\* the asset sold.  (Fractions are compared by cross-multiplication.)
TotalValue == args.a * args.price + args.b
AboveTargetA == 2 * args.price * args.a > TotalValue
AboveTargetB == 2 * args.b > TotalValue
C14_PlanValues ==
    (args.fn = "rebalancePosition" /\ value.done) =>
        /\ value.out.dir = "sellA" <=> AboveTargetA
        /\ value.out.dir = "sellB" <=> (~AboveTargetA /\ AboveTargetB)
        /\ (2 * args.price * args.a = TotalValue /\ 2 * args.b = TotalValue) => value.out = NoPlan
        /\ value.out.dir = "sellA" =>
              /\ value.out.num * 2 * args.price = (2 * args.price * args.a - TotalValue) * value.out.den
              /\ value.out.num <= args.a * value.out.den
        /\ value.out.dir = "sellB" =>
              /\ value.out.num * 2 = (2 * args.b - TotalValue) * value.out.den
              /\ value.out.num <= args.b * value.out.den
        /\ value.out.den > 0 /\ value.out.num >= 0
\* 3 of A at price 2 against 2 of B: the plan sells 1 of A
C14_Witness ==
    /\ args = [fn |-> "rebalancePosition", a |-> 3, b |-> 2, price |-> 2] /\ value.done
    /\ value.out.dir = "sellA" /\ value.out.num = value.out.den

\* C15: the usable balance of the native asset of the pair is the raw balance less
\* the fee buffer, and zero when the raw balance is below the buffer; that of a
\* non-native asset is the raw balance; it is never negative; and the result of the latest
\* call is that of what the wallet held at that call, not of what an earlier call read.
UsableOf(raw, out, isNative) ==
    /\ out >= 0
    /\ ~isNative => out = raw
    /\ (isNative /\ raw >= NATIVE_TOKEN_FEE_BUFFER) => out + NATIVE_TOKEN_FEE_BUFFER = raw
    /\ (isNative /\ raw < NATIVE_TOKEN_FEE_BUFFER) => out = 0
C15_UsableBalances ==
    (args.fn = "getUsableBalances" /\ value.done) =>
        /\ UsableOf(value.rawA, value.out.a, nativeAsset = "a")
        /\ UsableOf(value.rawB, value.out.b, nativeAsset = "b")
        /\ value.latest => (value.rawA = args.rawA /\ value.rawB = args.rawB)
\* native A below the buffer, B untouched
C15_Witness ==
    /\ args.fn = "getUsableBalances" /\ value.done /\ value.latest /\ nativeAsset = "a"
    /\ args.rawA = 0 /\ value.rawA = 0 /\ value.out.a = 0
    /\ value.rawB = 3 /\ value.out.b = 3

FeeAlerted == \E i \in 1 .. Len(log) : log[i] = Alert("feeBuffer", ErrFeeBuffer)
\* C16: verifyNativeTokenBuffer fails exactly when the raw native balance it read is
\* below the buffer; loadInitialState issues no protocol call before the check has
\* passed; and addLiquidity is called, at every attempt, with a passed check as
\* the last thing that happened, nothing that changes the wallet in between.
C16_FeeBufferCheck ==
    /\ [](/\ nativeBalance.read => (FeeAlerted <=> nativeBalance.raw < NATIVE_TOKEN_FEE_BUFFER)
          /\ FeeAlerted => nativeBalance.read
          /\ (pc \in {"lis_balances", "lis_verify"} /\ ctx = "cold") => (issued = {} /\ log = <<>>)
          /\ (pc \in {"lis_balances", "lis_verify"} /\ ctx = "recovery") =>
                LastLog = Ev("loadInitialState", "")
          /\ pc \in {"lis_getPositions", "al_balances", "al_add"} =>
                /\ LastLog = Ev("feeCheck", "")
                /\ nativeBalance.read /\ nativeBalance.raw >= NATIVE_TOKEN_FEE_BUFFER
          /\ \A i \in 1 .. Len(log) :
                log[i].ev = "addLiquidity" => (i > 1 /\ log[i - 1].ev = "feeCheck"))
    /\ [][(pc \in {"lis_balances", "lis_verify", "al_verify", "al_balances"})
            => (issued' = issued /\ chainPos' = chainPos)]_vars
    /\ [][("addLiquidity" \in issued' /\ "addLiquidity" \notin issued) => pc = "al_add"]_vars
\* the first addLiquidity attempt of a cold start has failed and is retried
C16_Witness ==
    /\ pc = "al_add" /\ ctx = "cold" /\ attempt = 1 /\ "addLiquidity" \in issued
    /\ LastLog = Ev("feeCheck", "") /\ nativeBalance.raw >= NATIVE_TOKEN_FEE_BUFFER

FeeChecked == \E i \in 1 .. Len(log) : log[i] = Ev("feeCheck", "")
\* C17: in a cold start and in a tick, removeLiquidity, swap and addLiquidity are
\* issued only after a fee-buffer check has passed in that cold start or tick.
C17_CheckBeforeFeeConsuming == issued \cap FeeConsuming # {} => FeeChecked

\* C18: once a fee-buffer check has failed (and alerted), the failure has reached
\* the top-level caller and the process has ended: no further tick is executed.
C18_FeeFailureTerminates == FeeAlerted => loop = "exited"

\* C19: loadInitialState returns true exactly when it created a position and false
\* exactly when it adopted one: after false the stored pool address, bin step and
\* range are those of a position that exists on chain.
C19_ResultTellsCreatedFromAdopted ==
    /\ lisResult = "true" =>
          /\ chainPos # NoPosition /\ "addLiquidity" \in issued
          /\ Stored = <<chainPos.pool, workingPoolBinStep, chainPos.lower, chainPos.upper>>
    /\ lisResult = "false" =>
          /\ chainPos # NoPosition
          /\ Stored = <<chainPos.pool, BinStepOf(chainPos.pool), chainPos.lower, chainPos.upper>>

\* C20: a cold start raises only the error of a failed call or of the fee-buffer
\* check, so with enough native balance and every call succeeding it resolves;
\* and when it resolves with a position the stored pool, bin step and range are set.
CallFailures == ExternalErrors \cup {ErrInsufficientFunds, ErrFeeBuffer, ErrBinStep}
C20_ColdStartCompletes ==
    /\ exitCause = "coldStartError" => LastLog.msg \in CallFailures
    /\ (loop = "initialDelay" /\ chainPos # NoPosition) =>
          /\ workingPoolAddress = chainPos.pool /\ workingPoolBinStep > 0
          /\ currLowerBinId = chainPos.lower /\ currUpperBinId = chainPos.upper

\* C21: a cold start that finds a position on chain issues no swap, addLiquidity or
\* removeLiquidity and does not query the candidate pools: getPositions is its
\* only protocol call; when it has returned, it returned false and the stored
\* pool, bin step and range are those of the position it found.
Adopting == chainPos # NoPosition /\ "addLiquidity" \notin issued
C21_AdoptExistingPosition ==
    /\ (ctx = "cold" /\ Adopting) => issued \subseteq {"getPositions"}
    /\ (ctx = "cold" /\ pc = "lis_getBinStep") => (Adopting /\ workingPoolAddress = chainPos.pool)
    /\ (loop = "initialDelay" /\ Adopting) =>
          /\ lisResult = "false" /\ issued = {"getPositions"}
          /\ Stored = <<chainPos.pool, BinStepOf(chainPos.pool), chainPos.lower, chainPos.upper>>
C21_Witness ==
    /\ loop = "initialDelay" /\ Adopting /\ lisResult = "false"
    /\ currLowerBinId = 1 /\ currUpperBinId = 2 /\ workingPoolAddress = "poolB"

\* C22: the range interval given to addLiquidity is min(ceil(range * 10000 / binStep), 34),
\* so never more than 34, and 20 for a bin step of 25 and a range of 0.05.
C22_RangeInterval ==
    (args.fn = "addLiquidity" /\ value.done) =>
        /\ value.rangeInterval =
              Min(CeilDiv(positionRangePerSide, args.binStep), METERORA_MAX_BINS_PER_SIDE)
        /\ value.rangeInterval <= METERORA_MAX_BINS_PER_SIDE
        /\ (positionRangePerSide = 500 /\ args.binStep = 25) => value.rangeInterval = 20

\* C30: for a pool that pool selection can return, the interval given to
\* addLiquidity covers the configured range: it is at most 34 without the clamp,
\* which therefore did not change it.
C30_ClampIdleForSelectedPool ==
    (args.fn = "addLiquidity" /\ value.done /\ value.selected) =>
        /\ value.rangeInterval * args.binStep >= positionRangePerSide
        /\ CeilRangeOver(positionRangePerSide, args.binStep) <= METERORA_MAX_BINS_PER_SIDE
        /\ value.rangeInterval = CeilRangeOver(positionRangePerSide, args.binStep)
\* a range of 0.1 and the smallest bin step selection admits: exactly 34 bins
C30_Witness ==
    /\ args.fn = "addLiquidity" /\ value.done /\ value.selected
    /\ positionRangePerSide = 1000 /\ args.binStep = 30 /\ value.rangeInterval = 34

\* C23: constructing the controller throws exactly when both assets are SOL in any
\* spelling of upper and lower case; a controller that was constructed has at
\* most one native asset, and its flags say which.
Sol == {"sol", "SOL", "Sol"}
C23_AtMostOneNative ==
    (args.fn = "constructor" /\ value.done) =>
        /\ value.threw <=> (args.assetA \in Sol /\ args.assetB \in Sol)
        /\ ~value.threw =>
              /\ ~(value.isAssetANative /\ value.isAssetBNative)
              /\ value.isAssetANative <=> args.assetA \in Sol
              /\ value.isAssetBNative <=> args.assetB \in Sol
              /\ nativeAsset \in {"a", "b", "none"}
              /\ nativeAsset = "a" <=> value.isAssetANative
              /\ nativeAsset = "b" <=> value.isAssetBNative
C23_Witness ==
    /\ args.fn = "constructor" /\ value.done /\ value.threw
    /\ args.assetA = "SOL" /\ args.assetB = "sol"

(***************************************************************************)
(* Properties of the polling loop.                                         *)
(***************************************************************************)
\* C24: an error that escapes optimize() reaches the loop's catch: if its message
\* holds 'Bad request' the loop goes on to the poll delay and the next tick; any
\* other error ends the loop, and once it has ended no tick starts.
C24_LoopErrorPolicy ==
    /\ [](result = "threw" =>
            /\ Len(log) > 0 /\ LastLog.ev = "rejected"
            /\ IsBadRequest(LastLog.msg) =>
                  (loop \in {"pollDelay", "tickDue"} \/ exitCause = "signal")
            /\ ~IsBadRequest(LastLog.msg) => (loop = "exited" /\ exitCause = "tickError"))
    /\ [](exitCause = "tickError" => (loop = "exited" /\ result = "threw" /\ inFlight = 0))
    /\ [][loop = "exited" => (loop' = "exited" /\ inFlight' = inFlight /\ pc' = pc)]_vars
\* the recovery of a tick failed on a 'Bad request' and the next tick is due
C24_Witness ==
    /\ result = "threw" /\ LastLog = Ev("rejected", ErrBadRequest) /\ loop = "tickDue"
    /\ IsPositionNotFound(caught)

\* C25: the first tick starts only when loadInitialState has returned and the
\* initial delay has then elapsed; if loadInitialState raises, the process ends
\* and no tick is started.
C25_FirstTickAfterColdStart ==
    /\ [](/\ loop = "coldStart" => (ctx = "cold" /\ inFlight = 0 /\ result = "none")
          /\ loop = "initialDelay" =>
                (lisResult \in {"true", "false"} /\ pc = "idle" /\ inFlight = 0 /\ result = "none")
          /\ exitCause = "coldStartError" =>
                (loop = "exited" /\ lisResult = "threw" /\ inFlight = 0 /\ result = "none"))
    /\ [][loop = "coldStart" => loop' \in {"coldStart", "initialDelay", "exited"}]_vars
    /\ [][(loop' = "tickDue" /\ loop # "tickDue") => loop \in {"initialDelay", "pollDelay"}]_vars
    /\ [][(loop' = "pollDelay" /\ loop # "pollDelay") => loop = "inTick"]_vars
    /\ [][(ctx' = "tick" /\ ctx # "tick") => loop = "tickDue"]_vars
\* the first tick is in progress after a cold start that created the position
C25_Witness ==
    /\ loop = "inTick" /\ ctx = "tick" /\ pre[1] # Undefined /\ lisResult = "none"
    /\ chainPos # NoPosition /\ pc = "op_activeBin" /\ attempt = 0

\* C26: a termination signal ends the process only between cycles: never while
\* a tick is in progress, and so never when removeLiquidity has completed and the
\* addLiquidity that follows it has not.
C26_SignalOnlyBetweenCycles ==
    exitCause = "signal" =>
        /\ inFlight = 0
        /\ ~(chainPos = NoPosition /\ "removeLiquidity" \in issued)
\* C27: after a successful swap and after a successful removeLiquidity the
\* settling delay elapses before the wallet balances are read again: no step
\* reads the balances while the delay of the last operation is still to come.
SettlingPending ==
    /\ Len(log) > 0
    /\ \/ LastLog.ev = "swap" /\ pc \in {"rb_newBalances", "rb_delay"}
       \/ LastLog.ev = "removeLiquidity" /\ pc = "rl_delay"
BalanceReads == {"lis_balances", "rb_balances", "rb_newBalances", "al_balances", "rl_balances"}
C27_SettlingDelayBeforeBalanceRead ==
    [][SettlingPending => ~(pc \in BalanceReads /\ pc' # pc /\ loop' = loop)]_vars

\* C28: at most one wallet, protocol or swap operation is outstanding: the cold
\* start and the ticks are one chain of awaited calls at a time, an operation is
\* issued only by that chain, one at a time and never while retry() is waiting
\* between two attempts.
Chains == inFlight + (IF loop = "coldStart" THEN 1 ELSE 0)
C28_OneOperationOutstanding ==
    /\ [](/\ Chains <= 1
          /\ pc # "idle" => (Chains = 1 \/ loop = "exited")
          /\ retryWait => pc \in RetriedCalls)
    /\ [][(issued' \ issued # {}) =>
            /\ loop \in {"coldStart", "inTick"} /\ Chains = 1 /\ ~retryWait
            /\ Cardinality(issued' \ issued) = 1]_vars
    /\ [][(pc' # pc /\ pc # "idle") => (loop \in {"coldStart", "inTick"} /\ Chains = 1)]_vars
\* the recovery of a tick has issued getPositions again after a failed attempt
C28_Witness ==
    /\ ctx = "recovery" /\ pc = "lis_getPositions" /\ attempt > 0 /\ ~retryWait
    /\ "getPositions" \in issued /\ inFlight = 1

\* C29: every error raised out of loadInitialState or optimize, and every failure
\* result they return, comes after at least one alert that names its context.
AlertEvents == {"alert:getGoodPool", "alert:getBinStep", "alert:feeBuffer", "alert:optimizeMeteora"}
Alerted == \E i \in 1 .. Len(log) : log[i].ev \in AlertEvents
C29_ErrorsAlerted ==
    /\ lisResult = "threw" => Alerted
    /\ result = "threw" => Alerted
    /\ (result = "false" /\ caught # NoError) => Alerted
    /\ (loop = "initialDelay" /\ lisResult = "false" /\ workingPoolAddress = Undefined) => Alerted

(***************************************************************************)
(* Properties of the stored pool and range.                                *)
(***************************************************************************)
\* C31: the candidate pools are queried only by loadInitialState when the wallet
\* has no position; a tick that repositions without going through its catch block
\* has not queried them, and has left the stored pool address and bin step as they
\* were before it.
C31_PoolSelectionOnlyAtColdStart ==
    /\ []((loop \in {"pollDelay", "tickDue"} /\ result = "true") =>
            /\ "getPools" \notin issued /\ lisRuns = 0 /\ caught = NoError
            /\ workingPoolAddress = pre[1] /\ workingPoolBinStep = pre[2])
    /\ [][("getPools" \in issued' \ issued) =>
            (ctx \in {"cold", "recovery"} /\ NoPositions(chainPos)
             /\ (ctx = "recovery" => IsPositionNotFound(caught)))]_vars
\* a tick has repositioned: same pool, another range
C31_Witness ==
    /\ loop = "pollDelay" /\ result = "true" /\ pre[1] = "poolB" /\ workingPoolAddress = "poolB"
    /\ <<currLowerBinId, currUpperBinId>> # <<pre[3], pre[4]>>
    /\ "removeLiquidity" \in issued /\ "addLiquidity" \in issued

\* C32: when loadInitialState or optimize has ended, by return or by error, the
\* stored pool address, bin step and bin ids are all those from before the
\* operation, or all those of one and the same new position.
CycleEnded == pc = "idle" /\ exitCause # "signal"
C32_ReplacedWholesale ==
    CycleEnded =>
        \/ ctrlVars = pre
        \/ /\ chainPos # NoPosition
           /\ ctrlVars = <<chainPos.pool, BinStepOf(chainPos.pool), chainPos.lower, chainPos.upper>>

(***************************************************************************)
(* Properties of the rebalance and of the reposition.                      *)
(***************************************************************************)
\* C33: when the amount of the plan is below the minimum swap size (0.01 of a
\* token, 10 thousandths) the rebalance calls no swap and still returns
\* normally; when it is at or above the minimum the swap is called.
MinSwapSize == 10
BelowMinSwapSize(p) == p.num < MinSwapSize * p.den
C33_MinimumSizeGate ==
    (args.fn = "rebalanceFromPlan" /\ value.done /\ value.out.dir # "none") =>
        /\ BelowMinSwapSize(value.out) => (~value.swapped /\ value.returned)
        /\ ~BelowMinSwapSize(value.out) => value.swapped

\* C34: when removeLiquidity, the swap or addLiquidity of a tick fails with
\* insufficient funds, retry() does not invoke it again, no later step of the tick
\* is taken, the tick sends its alert and returns false, and the loop goes on to
\* the next tick.
Happened(what) == \E i \in 1 .. Len(log) : log[i].ev = what
C34_InsufficientFundsInTick ==
    /\ []((result # "none" /\ lisRuns = 0 /\ caught = ErrInsufficientFunds) =>
            /\ result = "false" /\ LastLog = Alert("optimizeMeteora", ErrInsufficientFunds)
            /\ loop \in {"pollDelay", "tickDue"} \/ exitCause = "signal"
            /\ lastError = ErrInsufficientRaw /\ ~retryWait
            /\ ~Happened("removeLiquidity") => issued \cap {"swap", "addLiquidity"} = {}
            /\ ("swap" \in issued /\ ~Happened("swap")) => "addLiquidity" \notin issued
            /\ ~Happened("recorded") /\ Stored = pre)
    /\ [][(ctx = "tick" /\ pc \in {"rl_remove", "rb_swap", "al_add"}
           /\ lastError' = ErrInsufficientRaw /\ lastError # ErrInsufficientRaw) =>
            (pc' = "idle" /\ result' = "false" /\ caught' = ErrInsufficientFunds
             /\ attempt' = attempt /\ ~retryWait'
             /\ loop' = "pollDelay")]_vars
\* the swap of a tick ran out of funds after the position was closed, and the
\* next tick is due
C34_Witness ==
    /\ loop = "tickDue" /\ result = "false" /\ caught = ErrInsufficientFunds /\ lisRuns = 0
    /\ Happened("removeLiquidity") /\ "swap" \in issued /\ ~Happened("swap")
    /\ chainPos = NoPosition

\* C35: between two ticks, when the working pool is set, the stored range is the
\* range of an open position of the wallet in the working pool; a tick does not
\* report 'within range' for a position that an earlier tick closed and did not
\* replace.
BetweenTicks == loop \in {"initialDelay", "pollDelay", "tickDue"}
C35_StoredRangeMatchesChain ==
    (BetweenTicks /\ workingPoolAddress # Undefined) =>
        /\ chainPos # NoPosition /\ chainPos.pool = workingPoolAddress
        /\ currLowerBinId = chainPos.lower /\ currUpperBinId = chainPos.upper

\* C36: after a tick that closed the position and then failed, when from then on
\* every call succeeds, the controller eventually holds an open position again
\* whose range is the stored range, however the active bin evolves.
PositionMatchesStored ==
    /\ chainPos # NoPosition /\ chainPos.pool = workingPoolAddress
    /\ currLowerBinId = chainPos.lower /\ currUpperBinId = chainPos.upper
C36_EventualReentry == <>PositionMatchesStored

\* C37: the amount of the native asset asked for in a swap or an addLiquidity call
\* is at most max(0, raw - buffer) of the raw native balance the amount was
\* computed from, and no amount asked for is negative.
SpendableNative == Max(0, (IF nativeAsset = "a" THEN args.rawA ELSE args.rawB) - NATIVE_TOKEN_FEE_BUFFER)
C37_FeeBufferNeverCommitted ==
    (args.fn = "amounts" /\ value.done) =>
        /\ value.call = "swap" =>
              /\ value.num > 0 /\ value.den > 0
              /\ value.asset = nativeAsset => value.num <= SpendableNative * value.den
        /\ value.call = "addLiquidity" =>
              /\ value.amount >= 0 /\ value.amountB >= 0
              /\ nativeAsset = "a" => value.amount <= SpendableNative
              /\ nativeAsset = "b" => value.amountB <= SpendableNative
\* 5 of native A and no B at price 1: 4 are usable and 2 are sold
C37_Witness ==
    /\ args = [fn |-> "amounts", rawA |-> 5, rawB |-> 0, price |-> 1] /\ nativeAsset = "a"
    /\ value.done /\ value.call = "swap" /\ value.asset = "a" /\ value.num = 2 * value.den

\* C38: position-not-found is not fatal for retry(): the recovery of a tick starts
\* only when the operation has been invoked `retries` times with a delay between
\* two attempts; only insufficient funds makes retry() raise before that.
C38_PositionNotFoundRetried ==
    /\ [][(ctx = "tick" /\ ctx' = "recovery") =>
            /\ pc \in {"rl_remove", "al_lookup1", "al_lookup2"}
            /\ IsPositionNotFound(lastError') /\ IsPositionNotFound(caught')
            /\ attempt = retries - 1 /\ attempt' = retries /\ delays' = retries - 1
            /\ retryOutcome' = [kind |-> "threw", v |-> ErrPositionNotFound]]_vars
    /\ [][(retryOutcome'.kind = "threw" /\ retryOutcome' # retryOutcome) =>
            \/ IsInsufficientFunds(lastError') /\ retryOutcome'.v = ErrInsufficientFunds
            \/ attempt' = retries /\ delays' = retries - 1 /\ retryOutcome'.v = lastError']_vars
    /\ [][(retryWait' /\ ~retryWait) => (~IsInsufficientFunds(lastError') /\ attempt < retries - 1)]_vars
\* removeLiquidity of a tick found no position three times, with two delays, and
\* the recovery has started
C38_Witness ==
    /\ ctx = "recovery" /\ pc = "lis_balances" /\ attempt = DefaultRetries /\ delays = 2
    /\ caught = ErrPositionNotFound /\ lastError = ErrPositionNotFound
    /\ "removeLiquidity" \in issued /\ ~Happened("removeLiquidity")

\* C39: after a successful addLiquidity call the positions of the working pool are
\* looked up, once more if the list is empty; the stored bin ids are overwritten
\* there only with those of the position returned; when the second list is empty
\* too the step fails, and the stored range is the previous one although the
\* liquidity has been added.
Lookups == {"al_lookup1", "al_lookup2"}
StoredRange == <<currLowerBinId, currUpperBinId>>
C39_RecordingTheNewRange ==
    /\ []((pc \in Lookups => (Happened("addLiquidity") /\ chainPos # NoPosition
                              /\ ~Happened("recorded") /\ "addLiquidity" \in issued))
          /\ ((Len(log) > 0 /\ LastLog.msg = ErrTypeError) =>
                 (Happened("addLiquidity") /\ ~Happened("recorded") /\ chainPos # NoPosition
                  /\ StoredRange = <<pre[3], pre[4]>>)))
    /\ [][(pc' \in Lookups /\ pc' # pc) =>
            \/ pc = "al_add" /\ pc' = "al_lookup1" /\ LastLog'.ev = "addLiquidity"
            \/ pc = "al_lookup1" /\ pc' = "al_lookup2" /\ lastError' = NoError
               /\ StoredRange' = StoredRange]_vars
    /\ [][(Happened("recorded")' /\ ~Happened("recorded")) =>
            (pc \in Lookups /\ StoredRange' = <<chainPos.lower, chainPos.upper>>
             /\ chainPos.pool = workingPoolAddress)]_vars
    /\ [][(pc \in Lookups /\ StoredRange' # StoredRange) => Happened("recorded")']_vars
\* both lookups of a tick answered an empty list: the tick has failed with the old
\* range stored and a new position on chain
C39_Witness ==
    /\ loop = "pollDelay" /\ caught = ErrTypeError /\ result = "false"
    /\ chainPos # NoPosition /\ StoredRange # <<chainPos.lower, chainPos.upper>>
    /\ StoredRange = <<pre[3], pre[4]>> /\ Happened("addLiquidity")

\* C40: retry() with retries <= 0 never invokes the operation and never waits; it
\* does not return a result, it raises, and what it raises is undefined.
C40_NoAttemptsRaisesUndefined ==
    (ctx = "harness" /\ pc \in {"harness", "harness_done"} /\ retries <= 0) =>
        /\ Invocations = 0 /\ delays = 0 /\ ~retryWait /\ attempt = 0
        /\ lastError = NoError /\ retryOutcome.kind # "returned"
        /\ RetryDone <=> retryOutcome = [kind |-> "threw", v |-> NoError]
\* retry(fn, 0) has ended
C40_Witness ==
    /\ ctx = "harness" /\ retries = 0 /\ RetryDone /\ retryOutcome.kind = "threw"
    /\ retryOutcome.v = NoError /\ outcomes = <<>>
====
